---- MODULE Spec2Model ----
(***************************************************************************)
(* pwledger::Secret and its access guards (src/include/Secret.h).          *)
(*                                                                         *)
(* A Secret handle owns at most one region of sodium-hardened memory.      *)
(* The model keeps the handles' fields (data_, size_, access_count_), the  *)
(* heap the hardened allocator manages (each region's mapping state,       *)
(* protection level and bytes), and the access guards currently alive.     *)
(* Callers are arbitrary: every public operation may be invoked in any     *)
(* order, in an instrumented (debug) or a non-instrumented (NDEBUG) build. *)
(* assert failures, std::abort() and faults end the process (aborted).     *)
(***************************************************************************)
EXTENDS Integers, Sequences, FiniteSets, TLC

\* ------------------------------------------------------------------ bounds
NumHandles == 2     \* Secret objects the program may construct
NumAllocs  == 2     \* regions sodium_malloc may hand out in one run
MaxSize    == 2     \* largest size passed to Secret(size)
MaxByte    == 1     \* byte values are 0..MaxByte
MaxGuards  == 2     \* access guards alive at the same time
NumThreads == 2     \* threads that build guards step by step
MaxInput   == 2     \* longest password readPassword is given

Handles == 1..NumHandles
Allocs  == 1..NumAllocs
Byte    == 0..MaxByte
Threads == 1..NumThreads

\* data_ = nullptr
NULL == 0

VARIABLES
  debug,          \* TRUE: NDEBUG is not defined (asserts and access_count_ exist)
  aborted,        \* the process has been terminated (assert, std::abort, fault)
  hstate,         \* per handle: "unborn" | "live" | "dead" (destructor has run)
  data_,          \* per handle: the region it points to, or NULL
  size_,          \* per handle: Secret::size_
  access_count_,  \* per handle: Secret::access_count_ (stays 0 under NDEBUG)
  heap,           \* per region: [st, prot, bytes, frees]
  guards,         \* the live guards, oldest first: [sec, kind]
  lastWrite,      \* observation: the last byte sequence stored through a write guard
  last,           \* observation: the operation that has just run, with its pre-state
  thread,         \* per thread: the guard it is building or holding, step by step
  tty,            \* the attributes of the terminal behind STDIN_FILENO
  tm,             \* the UnixTerminalManager object: [st, originalSettings_, settingsChanged_]
  before,         \* observation: the terminal attributes when tm was constructed
  setFailed,      \* observation: a tcsetattr call of tm has failed
  password,       \* readPassword's local std::string
  rp              \* readPassword's position: "idle" | "reading"

stepVars == <<thread>>

ioVars == <<tty, tm, before, setFailed, password, rp>>

vars == <<debug, aborted, hstate, data_, size_, access_count_, heap, guards,
          lastWrite, last, thread, tty, tm, before, setFailed, password, rp>>

\* ----------------------------------------------------------------- helpers
Zeros(n) == [i \in 1..n |-> 0]

ByteSeqs(n) == [1..n -> Byte]

IsZero(bytes) == \A i \in 1..Len(bytes) : bytes[i] = 0

UnusedRegion == [st |-> "unused", prot |-> "Unmapped", bytes |-> <<>>, frees |-> 0]

NoWrite == [alloc |-> NULL, s |-> <<>>]

NoOp == [op |-> "Init", h |-> 0, src |-> 0, alloc |-> NULL, old |-> NULL, n |-> 0,
         prot |-> "-", cnt |-> 0, bytes |-> <<>>, dirty |-> FALSE, kind |-> "-",
         how |-> "-", fail |-> "-", stop |-> "-"]

\* The number of live guard objects whose sec_ is handle h.
GuardsOn(h) == Cardinality({i \in 1..Len(guards) : guards[i].sec = h})

RemoveAt(s, i) == [j \in 1..(Len(s) - 1) |-> IF j < i THEN s[j] ELSE s[j + 1]]

\* Protection level of the region a handle points to ("-" for an empty handle).
ProtOf(h) == IF data_[h] = NULL THEN "-" ELSE heap[data_[h]].prot

\* Bytes of the region a handle points to.
BytesOf(h) == IF data_[h] = NULL THEN <<>> ELSE heap[data_[h]].bytes

\* Faulty variant: size() of a locked buffer reports nothing.
Size_Locked(h) == IF ProtOf(h) = "NoAccess" THEN 0 ELSE size_[h]

\* Secret::size()
Size(h) == size_[h]

\* Faulty variant: the span is built one byte short.
View_Short(h) == IF data_[h] = NULL \/ size_[h] = 0 THEN <<>>
                 ELSE [i \in 1..(size_[h] - 1) |-> heap[data_[h]].bytes[i]]

\* Secret_readaccess::get / Secret_writeaccess::get : {sec_.data_, sec_.size_}
View(h) == IF data_[h] = NULL THEN <<>>
           ELSE [i \in 1..size_[h] |-> heap[data_[h]].bytes[i]]

\* ------------------------------------------------- the hardened allocator
\* sodium_malloc hands out the next region of the run, readable and writable.
FreshAlloc == IF \E a \in Allocs : heap[a].st = "unused"
              THEN CHOOSE a \in Allocs :
                     /\ heap[a].st = "unused"
                     /\ \A b \in Allocs : heap[b].st = "unused" => a <= b
              ELSE NULL

sodium_malloc(hp, a, content) ==
  [hp EXCEPT ![a] = [st |-> "live", prot |-> "ReadWrite", bytes |-> content,
                     frees |-> 0]]

\* sodium_free zeroes the region, then releases it.
sodium_free(hp, a) ==
  [hp EXCEPT ![a] = [st |-> "freed", prot |-> "Unmapped",
                     bytes |-> Zeros(Len(hp[a].bytes)), frees |-> hp[a].frees + 1]]

\* sodium_mprotect_noaccess / _readonly / _readwrite, when they return 0.
sodium_mprotect(hp, a, p) == [hp EXCEPT ![a].prot = p]

\* Faulty variant: the last byte is left as it was.
sodium_memzero_Short(hp, a, n) ==
  [hp EXCEPT ![a].bytes = [i \in 1..Len(hp[a].bytes) |->
                             IF i < n THEN 0 ELSE hp[a].bytes[i]]]

\* sodium_memzero(data_, size_)
sodium_memzero(hp, a, n) ==
  [hp EXCEPT ![a].bytes = [i \in 1..Len(hp[a].bytes) |->
                             IF i <= n THEN 0 ELSE hp[a].bytes[i]]]

\* ------------------------------------------------------ pieces of Secret
\* Faulty variant: the source keeps its pointer and size.
Invalidate_Keep(f, s) == f

\* other.data_ = nullptr; other.size_ = 0;
Invalidate(f, s) == [f EXCEPT ![s] = 0]

\* Faulty variant: the destination is not initialised from the source.
Transfer_Lose(f, d, s) == [f EXCEPT ![s] = 0]

\* data_(other.data_) / size_(other.size_) followed by the source's reset.
Transfer(f, d, s) == Invalidate([f EXCEPT ![d] = f[s]], s)

\* Faulty variants: the counter is not incremented / not decremented.
FetchAdd_Noop(c, h) == c

FetchSub_Noop(c, h) == c

\* access_count_.fetch_add(1) / fetch_sub(1) / store(0), compiled under !NDEBUG.
FetchAdd(c, h) == IF debug THEN [c EXCEPT ![h] = @ + 1] ELSE c

FetchSub(c, h) == IF debug THEN [c EXCEPT ![h] = @ - 1] ELSE c

StoreZero(c, h) == IF debug THEN [c EXCEPT ![h] = 0] ELSE c

\* Faulty variant: a failed primitive is reported to nobody and the operation
\* goes on to return.
AbortsOn_Never(ok) == FALSE

\* if (!data_) { std::abort(); } / if (sodium_mprotect_*(data_) != 0) { std::abort(); }
AbortsOn(ok) == ~ok

\* Faulty variant: the size is not checked.
SizeRejected_Off(n) == FALSE

\* assert(size > 0 && "Secret size must be greater than 0")
SizeRejected(n) == debug /\ n = 0

\* Faulty variant: move assignment does not look for self-assignment.
SelfAssign_Unchecked(d, s) == FALSE

\* The negation of `if (this != &other)`.
SelfAssign(d, s) == d = s

\* Faulty variant: the moves do not look at the guard count.
GuardAlive_Off(h) == FALSE

\* The negation of assert(access_count_.load() == 0) in the two moves.
GuardAlive(h) == debug /\ access_count_[h] # 0

\* Faulty variant: the overlap assert is missing.
OverlapDetected_Off(prev) == FALSE

\* assert(prev == 0 && "Overlapping access guards ...")
OverlapDetected(prev) == debug /\ prev # 0

\* Faulty variant: the guard destructor does not re-lock.
Relock_Skip(hp, a) == hp

\* The region after the guard destructor's sodium_mprotect_noaccess succeeded.
Relock(hp, a) == sodium_mprotect(hp, a, "NoAccess")

\* Faulty variant: allocate() leaves the fresh region as sodium_malloc gave it.
InitialLock_Missing(hp, a) == hp

\* allocate(): "Buffer starts life locked."
InitialLock(hp, a) == sodium_mprotect(hp, a, "NoAccess")

\* Faulty variant: zeroize() returns without re-locking.
ZeroizeLock_Missing(hp, a) == hp

\* zeroize(): the re-lock after sodium_memzero.
ZeroizeLock(hp, a) == sodium_mprotect(hp, a, "NoAccess")

\* Faulty variant: the region is never handed back to the allocator.
WipeAndRelease_Leak(hp, a) == hp

\* Faulty variant: the region is released without being zeroed.
WipeAndRelease_NoWipe(hp, a) ==
  IF a # NULL
  THEN [hp EXCEPT ![a].st = "freed", ![a].prot = "Unmapped", ![a].frees = @ + 1]
  ELSE hp

\* if (data_) { sodium_free(data_); } of wipe_and_free and of operator=
WipeAndRelease(hp, a) == IF a # NULL THEN sodium_free(hp, a) ELSE hp

\* Faulty variant: the read guard asks for a writable region.
GuardProt_AlwaysWrite(kind) == "ReadWrite"

\* The protection level a guard of the given kind asks for.
GuardProt(kind) == IF kind = "read" THEN "ReadOnly" ELSE "ReadWrite"

ForgetWrite(a) == IF a # NULL /\ lastWrite.alloc = a THEN NoWrite ELSE lastWrite

\* Objects come into being in the order of their names: a Secret's name stands
\* for its identity, not for an address.
NextHandle == IF \E h \in Handles : hstate[h] = "unborn"
              THEN CHOOSE h \in Handles :
                     /\ hstate[h] = "unborn"
                     /\ \A k \in Handles : hstate[k] = "unborn" => h <= k
              ELSE 0

\* A thread that is not inside a guard constructor or destructor and holds
\* no guard.
IdleThread == [pc |-> "idle", sec |-> 0, kind |-> "-", prev |-> 0]

\* struct termios, as far as configureTerminal() reads or writes it: the ECHO
\* and ICANON bits of c_lflag, c_cc[VMIN] and c_cc[VTIME].
TtyAttrs == [echo : BOOLEAN, icanon : BOOLEAN, vmin : 0..1, vtime : 0..1]

\* struct termios originalSettings_ {};
ZeroAttrs == [echo |-> FALSE, icanon |-> FALSE, vmin |-> 0, vtime |-> 0]

\* A terminal in its usual line-buffered, echoing mode.
CookedAttrs == [echo |-> TRUE, icanon |-> TRUE, vmin |-> 1, vtime |-> 0]

\* No manager object exists; its members have their in-class initialisers.
NoManager == [st |-> "none", originalSettings_ |-> ZeroAttrs,
              settingsChanged_ |-> FALSE]

InitSecrets ==
  /\ debug \in BOOLEAN
  /\ aborted = FALSE
  /\ hstate = [h \in Handles |-> "unborn"]
  /\ data_ = [h \in Handles |-> NULL]
  /\ size_ = [h \in Handles |-> 0]
  /\ access_count_ = [h \in Handles |-> 0]
  /\ heap = [a \in Allocs |-> UnusedRegion]
  /\ guards = <<>>
  /\ lastWrite = NoWrite
  /\ last = NoOp
  /\ thread = [t \in Threads |-> IdleThread]

InitIO ==
  /\ tm = NoManager
  /\ before = ZeroAttrs
  /\ setFailed = FALSE
  /\ password = <<>>
  /\ rp = "idle"

\* -------------------------------------------------------------------- Init
Init ==
  /\ InitSecrets
  /\ InitIO
  /\ tty = CookedAttrs

\* ----------------------------------------------------------------- actions
\* explicit Secret(std::size_t size) { allocate(size); }
Construct(h, n, mallocOk, protOk, content) ==
  /\ ~aborted
  /\ UNCHANGED <<stepVars, ioVars>>
  /\ h = NextHandle
  /\ FreshAlloc # NULL
  /\ content \in ByteSeqs(n)
  /\ last' = [NoOp EXCEPT !.op = "Construct", !.h = h, !.n = n,
                          !.fail = IF SizeRejected(n) THEN "-"
                                   ELSE IF ~mallocOk THEN "malloc"
                                   ELSE IF ~protOk THEN "mprotect" ELSE "-",
                          !.stop = IF SizeRejected(n) THEN "assert" ELSE "-"]
  /\ UNCHANGED <<debug, access_count_, guards, lastWrite>>
  /\ IF SizeRejected(n)
     THEN \* assert(size > 0)
          /\ aborted' = TRUE
          /\ UNCHANGED <<hstate, data_, size_, heap>>
     ELSE IF ~mallocOk
     THEN \* if (!data_) { std::abort(); }
          /\ aborted' = AbortsOn(mallocOk)
          /\ UNCHANGED <<hstate, data_, size_, heap>>
     ELSE LET a == FreshAlloc
              hp == sodium_malloc(heap, a, content)
          IN /\ data_' = [data_ EXCEPT ![h] = a]
             /\ size_' = [size_ EXCEPT ![h] = n]
             /\ IF protOk
                THEN /\ heap' = InitialLock(hp, a)
                     /\ hstate' = [hstate EXCEPT ![h] = "live"]
                     /\ aborted' = FALSE
                ELSE /\ heap' = hp
                     /\ hstate' = IF AbortsOn(protOk) THEN hstate
                                  ELSE [hstate EXCEPT ![h] = "live"]
                     /\ aborted' = AbortsOn(protOk)

\* ~Secret() noexcept { wipe_and_free(); }
Destroy(h) ==
  /\ ~aborted
  /\ UNCHANGED <<stepVars, ioVars>>
  /\ hstate[h] \in {"live", "dead"}
  /\ last' = [NoOp EXCEPT !.op = "Destroy", !.h = h, !.alloc = data_[h],
                          !.dirty = ~IsZero(BytesOf(h))]
  /\ heap' = WipeAndRelease(heap, data_[h])
  /\ data_' = IF data_[h] # NULL THEN Invalidate(data_, h) ELSE data_
  /\ size_' = IF data_[h] # NULL THEN Invalidate(size_, h) ELSE size_
  /\ hstate' = [hstate EXCEPT ![h] = "dead"]
  /\ lastWrite' = ForgetWrite(data_[h])
  /\ UNCHANGED <<debug, aborted, access_count_, guards>>

\* Secret(Secret&& other) noexcept
MoveConstruct(d, s) ==
  /\ ~aborted
  /\ UNCHANGED <<stepVars, ioVars>>
  /\ d = NextHandle
  /\ hstate[s] = "live"
  /\ last' = [NoOp EXCEPT !.op = "MoveConstruct", !.h = d, !.src = s,
                          !.alloc = data_[s], !.n = size_[s],
                          !.cnt = GuardsOn(s), !.bytes = View(s),
                          !.prot = ProtOf(s),
                          !.stop = IF GuardAlive(s) THEN "assert" ELSE "-"]
  /\ data_' = Transfer(data_, d, s)
  /\ size_' = Transfer(size_, d, s)
  /\ hstate' = [hstate EXCEPT ![d] = "live"]
  /\ IF GuardAlive(s)
     THEN \* assert(other.access_count_.load() == 0)
          /\ aborted' = TRUE
          /\ access_count_' = access_count_
     ELSE /\ aborted' = FALSE
          /\ access_count_' = StoreZero(access_count_, d)
  /\ UNCHANGED <<debug, heap, guards, lastWrite>>

\* Secret& operator=(Secret&& other) noexcept
MoveAssign(d, s) ==
  /\ ~aborted
  /\ UNCHANGED <<stepVars, ioVars>>
  /\ hstate[d] = "live"
  /\ hstate[s] = "live"
  /\ last' = [NoOp EXCEPT !.op = "MoveAssign", !.h = d, !.src = s,
                          !.alloc = data_[s], !.old = data_[d], !.n = size_[s],
                          !.cnt = GuardsOn(s) + GuardsOn(d), !.bytes = View(s),
                          !.dirty = ~IsZero(BytesOf(d)), !.prot = ProtOf(s),
                          !.stop = IF ~SelfAssign(d, s) /\ (GuardAlive(d) \/ GuardAlive(s))
                                   THEN "assert" ELSE "-"]
  /\ UNCHANGED <<debug, hstate, guards>>
  /\ IF SelfAssign(d, s)
     THEN \* if (this != &other) is false
          UNCHANGED <<aborted, data_, size_, access_count_, heap, lastWrite>>
     ELSE IF GuardAlive(d) \/ GuardAlive(s)
     THEN \* one of the two asserts fails
          /\ aborted' = TRUE
          /\ UNCHANGED <<data_, size_, access_count_, heap, lastWrite>>
     ELSE /\ heap' = WipeAndRelease(heap, data_[d])
          /\ data_' = Transfer(data_, d, s)
          /\ size_' = Transfer(size_, d, s)
          /\ access_count_' = StoreZero(access_count_, d)
          /\ lastWrite' = ForgetWrite(data_[d])
          /\ aborted' = FALSE

\* void zeroize() noexcept
Zeroize(h, rwOk, naOk) ==
  /\ ~aborted
  /\ UNCHANGED <<stepVars, ioVars>>
  /\ hstate[h] = "live"
  /\ last' = [NoOp EXCEPT !.op = "Zeroize", !.h = h, !.alloc = data_[h],
                          !.n = size_[h], !.prot = ProtOf(h),
                          !.dirty = ~IsZero(BytesOf(h)),
                          !.fail = IF data_[h] # NULL /\ (~rwOk \/ ~naOk)
                                   THEN "mprotect" ELSE "-"]
  /\ UNCHANGED <<debug, hstate, data_, size_, access_count_, guards>>
  /\ IF data_[h] = NULL
     THEN UNCHANGED <<aborted, heap, lastWrite>>
     ELSE IF ~rwOk
     THEN /\ aborted' = AbortsOn(rwOk)
          /\ UNCHANGED <<heap, lastWrite>>
     ELSE LET a == data_[h]
              hp == sodium_memzero(sodium_mprotect(heap, a, "ReadWrite"), a, size_[h])
          IN /\ lastWrite' = ForgetWrite(a)
             /\ IF naOk
                THEN /\ heap' = ZeroizeLock(hp, a)
                     /\ aborted' = FALSE
                ELSE /\ heap' = hp
                     /\ aborted' = AbortsOn(naOk)

\* Secret_readaccess(const Secret&) / Secret_writeaccess(Secret&), built
\* directly or by with_read_access / with_write_access.
Open(h, kind, protOk) ==
  /\ ~aborted
  /\ UNCHANGED <<stepVars, ioVars>>
  /\ hstate[h] = "live"
  /\ Len(guards) < MaxGuards
  /\ last' = [NoOp EXCEPT !.op = "Open", !.h = h, !.alloc = data_[h],
                          !.prot = ProtOf(h), !.cnt = GuardsOn(h), !.kind = kind,
                          !.n = size_[h], !.bytes = BytesOf(h),
                          !.fail = IF /\ ~OverlapDetected(access_count_[h])
                                      /\ data_[h] # NULL /\ ~protOk
                                   THEN "mprotect" ELSE "-",
                          !.stop = IF OverlapDetected(access_count_[h]) THEN "assert"
                                   ELSE IF data_[h] = NULL THEN "fault" ELSE "-"]
  /\ UNCHANGED <<debug, hstate, data_, size_, lastWrite>>
  /\ LET prev == access_count_[h]
         counted == FetchAdd(access_count_, h)
     IN IF OverlapDetected(prev)
        THEN \* assert(prev == 0)
             /\ aborted' = TRUE
             /\ access_count_' = counted
             /\ UNCHANGED <<heap, guards>>
        ELSE IF data_[h] = NULL
        THEN \* null pointer to mprotect: the process faults
             /\ aborted' = TRUE
             /\ access_count_' = counted
             /\ UNCHANGED <<heap, guards>>
        ELSE IF ~protOk
        THEN \* fetch_sub(1); std::abort();
             /\ aborted' = AbortsOn(protOk)
             /\ access_count_' = FetchSub(counted, h)
             /\ UNCHANGED <<heap, guards>>
        ELSE /\ aborted' = FALSE
             /\ access_count_' = counted
             /\ heap' = sodium_mprotect(heap, data_[h], GuardProt(kind))
             /\ guards' = Append(guards, [sec |-> h, kind |-> kind])

\* ~Secret_readaccess() / ~Secret_writeaccess(): the guard leaves its scope,
\* by return or by an exception unwinding through it.
Close(i, how, protOk) ==
  /\ ~aborted
  /\ UNCHANGED <<stepVars, ioVars>>
  /\ i \in 1..Len(guards)
  /\ LET h == guards[i].sec
         a == data_[h]
     IN /\ last' = [NoOp EXCEPT !.op = "Close", !.h = h, !.alloc = a,
                                !.cnt = GuardsOn(h), !.kind = guards[i].kind,
                                !.how = how, !.n = size_[h], !.bytes = BytesOf(h),
                                !.fail = IF a # NULL /\ ~protOk THEN "mprotect"
                                         ELSE "-",
                                !.stop = IF a = NULL THEN "fault" ELSE "-"]
        /\ UNCHANGED <<debug, hstate, data_, size_, lastWrite>>
        /\ IF a = NULL
           THEN \* null pointer to mprotect: the process faults
                /\ aborted' = TRUE
                /\ UNCHANGED <<access_count_, heap, guards>>
           ELSE IF ~protOk
           THEN \* if (sodium_mprotect_noaccess(sec_.data_) != 0) { std::abort(); }
                /\ aborted' = AbortsOn(protOk)
                /\ UNCHANGED <<access_count_, heap, guards>>
           ELSE /\ aborted' = FALSE
                /\ heap' = Relock(heap, a)
                /\ access_count_' = FetchSub(access_count_, h)
                /\ guards' = RemoveAt(guards, i)

\* The holder of a write guard stores s at the start of the guard's view.
Write(i, s) ==
  /\ ~aborted
  /\ UNCHANGED <<stepVars, ioVars>>
  /\ i \in 1..Len(guards)
  /\ guards[i].kind = "write"
  /\ LET h == guards[i].sec
         a == data_[h]
     IN /\ a # NULL
        /\ Len(s) \in 1..size_[h]
        /\ s \in ByteSeqs(Len(s))
        /\ last' = [NoOp EXCEPT !.op = "Write", !.h = h, !.alloc = a, !.n = size_[h],
                                !.stop = IF heap[a].prot # "ReadWrite" THEN "fault"
                                         ELSE "-"]
        /\ UNCHANGED <<debug, hstate, data_, size_, access_count_, guards>>
        /\ IF heap[a].prot # "ReadWrite"
           THEN \* the page is not writable: the store faults
                /\ aborted' = TRUE
                /\ UNCHANGED <<heap, lastWrite>>
           ELSE /\ aborted' = FALSE
                /\ heap' = [heap EXCEPT ![a].bytes =
                              [j \in 1..Len(heap[a].bytes) |->
                                 IF j <= Len(s) THEN s[j] ELSE heap[a].bytes[j]]]
                /\ lastWrite' = [alloc |-> a, s |-> s]

Next ==
  \/ \E h \in Handles, n \in 0..MaxSize, mallocOk \in BOOLEAN, protOk \in BOOLEAN :
       \E content \in ByteSeqs(n) : Construct(h, n, mallocOk, protOk, content)
  \/ \E h \in Handles : Destroy(h)
  \/ \E d \in Handles, s \in Handles : MoveConstruct(d, s)
  \/ \E d \in Handles, s \in Handles : MoveAssign(d, s)
  \/ \E h \in Handles, rwOk \in BOOLEAN, naOk \in BOOLEAN : Zeroize(h, rwOk, naOk)
  \/ \E h \in Handles, kind \in {"read", "write"}, protOk \in BOOLEAN :
       Open(h, kind, protOk)
  \/ \E i \in 1..MaxGuards, how \in {"return", "throw"}, protOk \in BOOLEAN :
       Close(i, how, protOk)
  \/ \E i \in 1..MaxGuards, n \in 1..MaxSize : \E s \in ByteSeqs(n) : Write(i, s)

Spec == Init /\ [][Next]_vars

\* ------------------------------------------------- callers that ask for size()
\* [[nodiscard]] std::size_t size() const noexcept { return size_; }
\* last.n is the value returned; no field, region or guard is touched.
CallSize(h) ==
  /\ ~aborted
  /\ UNCHANGED <<stepVars, ioVars>>
  /\ hstate[h] = "live"
  /\ last' = [NoOp EXCEPT !.op = "Size", !.h = h, !.alloc = data_[h],
                          !.n = Size(h), !.prot = ProtOf(h), !.cnt = GuardsOn(h)]
  /\ UNCHANGED <<debug, aborted, hstate, data_, size_, access_count_, heap,
                 guards, lastWrite>>

NextSize ==
  \/ Next
  \/ \E h \in Handles : CallSize(h)

SpecSize == Init /\ [][NextSize]_vars

\* ------------------------------------------- guards built step by step
\* The two guard classes statement by statement, run by threads that share
\* the Secrets. fetch_add and fetch_sub on the std::atomic<int> are single
\* steps; sodium_mprotect_* is one system call.

\* Guards that have been counted in and not yet counted out on handle h.
Entered(h) == {t \in Threads : thread[t].sec = h /\ thread[t].pc # "idle"}

\* int prev = s.access_count_.fetch_add(1, std::memory_order_relaxed);
GuardEnter(t, h, kind) ==
  /\ ~aborted
  /\ thread[t].pc = "idle"
  /\ hstate[h] = "live"
  /\ thread' = [thread EXCEPT ![t] = [pc |-> "added", sec |-> h, kind |-> kind,
                                      prev |-> access_count_[h]]]
  /\ access_count_' = FetchAdd(access_count_, h)
  /\ last' = [NoOp EXCEPT !.op = "GuardEnter", !.h = h, !.kind = kind]
  /\ UNCHANGED <<debug, aborted, hstate, data_, size_, heap, guards, lastWrite,
                 ioVars>>

\* Faulty variant: a second guard waits for the first one to go away.
GuardAssert_Wait(t) ==
  /\ ~aborted
  /\ thread[t].pc = "added"
  /\ ~OverlapDetected(thread[t].prev)
  /\ thread' = [thread EXCEPT ![t].pc = "checked"]
  /\ last' = [NoOp EXCEPT !.op = "GuardAssert", !.h = thread[t].sec]
  /\ UNCHANGED <<debug, aborted, hstate, data_, size_, access_count_, heap,
                 guards, lastWrite, ioVars>>

\* assert(prev == 0 && "Overlapping access guards ...")
GuardAssert(t) ==
  /\ ~aborted
  /\ thread[t].pc = "added"
  /\ aborted' = OverlapDetected(thread[t].prev)
  /\ thread' = IF OverlapDetected(thread[t].prev) THEN thread
                ELSE [thread EXCEPT ![t].pc = "checked"]
  /\ last' = [NoOp EXCEPT !.op = "GuardAssert", !.h = thread[t].sec,
                          !.stop = IF OverlapDetected(thread[t].prev) THEN "assert"
                                   ELSE "-"]
  /\ UNCHANGED <<debug, hstate, data_, size_, access_count_, heap, guards,
                 lastWrite, ioVars>>

\* if (sodium_mprotect_readonly(sec_.data_) != 0) { fetch_sub(1); std::abort(); }
\* (sodium_mprotect_readwrite for the write guard); the constructor returns.
GuardProtect(t, protOk) ==
  /\ ~aborted
  /\ thread[t].pc = "checked"
  /\ LET h == thread[t].sec
         a == data_[h]
     IN /\ last' = [NoOp EXCEPT !.op = "GuardProtect", !.h = h, !.alloc = a,
                                !.kind = thread[t].kind, !.prot = ProtOf(h),
                                !.fail = IF a # NULL /\ ~protOk THEN "mprotect"
                                         ELSE "-",
                                !.stop = IF a = NULL THEN "fault" ELSE "-"]
        /\ IF a = NULL
           THEN /\ aborted' = TRUE
                /\ UNCHANGED <<access_count_, heap, thread>>
           ELSE IF ~protOk
           THEN /\ aborted' = AbortsOn(protOk)
                /\ access_count_' = FetchSub(access_count_, h)
                /\ UNCHANGED <<heap, thread>>
           ELSE /\ aborted' = FALSE
                /\ heap' = sodium_mprotect(heap, a, GuardProt(thread[t].kind))
                /\ thread' = [thread EXCEPT ![t].pc = "open"]
                /\ UNCHANGED access_count_
  /\ UNCHANGED <<debug, hstate, data_, size_, guards, lastWrite, ioVars>>

\* Faulty variant: the destructor releases its slot in the count first and
\* re-locks afterwards.
GuardRelock_CountFirst(t, protOk) ==
  /\ ~aborted
  /\ thread[t].pc = "open"
  /\ thread' = [thread EXCEPT ![t].pc = "locked"]
  /\ access_count_' = [access_count_ EXCEPT ![thread[t].sec] = 0]
  /\ last' = [NoOp EXCEPT !.op = "GuardRelock", !.h = thread[t].sec]
  /\ UNCHANGED <<debug, aborted, hstate, data_, size_, heap, guards, lastWrite,
                 ioVars>>

\* The guard leaves its scope:
\* if (sodium_mprotect_noaccess(sec_.data_) != 0) { std::abort(); }
GuardRelock(t, protOk) ==
  /\ ~aborted
  /\ thread[t].pc = "open"
  /\ LET h == thread[t].sec
         a == data_[h]
     IN /\ last' = [NoOp EXCEPT !.op = "GuardRelock", !.h = h, !.alloc = a,
                                !.kind = thread[t].kind,
                                !.fail = IF a # NULL /\ ~protOk THEN "mprotect"
                                         ELSE "-",
                                !.stop = IF a = NULL THEN "fault" ELSE "-"]
        /\ IF a = NULL
           THEN /\ aborted' = TRUE
                /\ UNCHANGED <<heap, thread>>
           ELSE IF ~protOk
           THEN /\ aborted' = AbortsOn(protOk)
                /\ UNCHANGED <<heap, thread>>
           ELSE /\ aborted' = FALSE
                /\ heap' = Relock(heap, a)
                /\ thread' = [thread EXCEPT ![t].pc = "locked"]
  /\ UNCHANGED <<debug, hstate, data_, size_, access_count_, guards, lastWrite,
                 ioVars>>

\* sec_.access_count_.fetch_sub(1, std::memory_order_relaxed); the destructor
\* returns.
GuardLeave(t) ==
  /\ ~aborted
  /\ thread[t].pc = "locked"
  /\ access_count_' = FetchSub(access_count_, thread[t].sec)
  /\ thread' = [thread EXCEPT ![t] = IdleThread]
  /\ last' = [NoOp EXCEPT !.op = "GuardLeave", !.h = thread[t].sec]
  /\ UNCHANGED <<debug, aborted, hstate, data_, size_, heap, guards, lastWrite,
                 ioVars>>

\* The next statement of the constructor or destructor thread t is inside of.
\* Entering a constructor and letting a guard leave its scope are the
\* caller's decisions; the statements in between are not.
InsideStep(t) ==
  \/ GuardAssert(t)
  \/ \E protOk \in BOOLEAN : GuardProtect(t, protOk)
  \/ GuardLeave(t)

NextSteps ==
  \/ \E h \in Handles, n \in 0..MaxSize, mallocOk \in BOOLEAN, protOk \in BOOLEAN :
       \E content \in ByteSeqs(n) : Construct(h, n, mallocOk, protOk, content)
  \/ \E t \in Threads, h \in Handles, kind \in {"read", "write"} :
       GuardEnter(t, h, kind)
  \/ \E t \in Threads : GuardAssert(t)
  \/ \E t \in Threads, protOk \in BOOLEAN : GuardProtect(t, protOk)
  \/ \E t \in Threads, protOk \in BOOLEAN : GuardRelock(t, protOk)
  \/ \E t \in Threads : GuardLeave(t)

SpecSteps == Init /\ [][NextSteps]_vars

\* Every thread that is inside a constructor or destructor gets to run.
SpecStepsFair == SpecSteps /\ \A t \in Threads : WF_vars(InsideStep(t))

\* zeroize() called while guards are being built, by the thread that holds
\* the guard or by another one.
NextStepsZeroize ==
  \/ NextSteps
  \/ \E h \in Handles, rwOk \in BOOLEAN, naOk \in BOOLEAN : Zeroize(h, rwOk, naOk)

SpecStepsZeroize == Init /\ [][NextStepsZeroize]_vars

\* ---------------------------------- callers that use a destroyed Secret
\* zeroize() on a Secret whose destructor has run and whose storage is still
\* there (a member between ~SecretEntry()'s explicit destructor calls and
\* the implicit member destruction): the same statements as Zeroize.
ZeroizeEnded(h, rwOk, naOk) ==
  /\ ~aborted
  /\ hstate[h] = "dead"
  /\ last' = [NoOp EXCEPT !.op = "Zeroize", !.h = h, !.alloc = data_[h],
                          !.n = size_[h], !.prot = ProtOf(h),
                          !.dirty = ~IsZero(BytesOf(h)),
                          !.fail = IF data_[h] # NULL /\ (~rwOk \/ ~naOk)
                                   THEN "mprotect" ELSE "-"]
  /\ UNCHANGED <<debug, hstate, data_, size_, access_count_, guards, stepVars,
                 ioVars>>
  /\ IF data_[h] = NULL
     THEN UNCHANGED <<aborted, heap, lastWrite>>
     ELSE IF ~rwOk
     THEN /\ aborted' = AbortsOn(rwOk)
          /\ UNCHANGED <<heap, lastWrite>>
     ELSE LET a == data_[h]
              hp == sodium_memzero(sodium_mprotect(heap, a, "ReadWrite"), a, size_[h])
          IN /\ lastWrite' = ForgetWrite(a)
             /\ IF naOk
                THEN /\ heap' = ZeroizeLock(hp, a)
                     /\ aborted' = FALSE
                ELSE /\ heap' = hp
                     /\ aborted' = AbortsOn(naOk)

NextEnded ==
  \/ Next
  \/ \E h \in Handles, rwOk \in BOOLEAN, naOk \in BOOLEAN :
       ZeroizeEnded(h, rwOk, naOk)

SpecEnded == Init /\ [][NextEnded]_vars

\* ------------------------------------ callers that keep the guard contract
\* A guard is opened only on a buffer that has none.
OpenFree(h, kind, protOk) ==
  /\ GuardsOn(h) = 0
  /\ Open(h, kind, protOk)

\* A buffer is relocated only while no guard is live on it.
MoveConstructFree(d, s) ==
  /\ GuardsOn(s) = 0
  /\ MoveConstruct(d, s)

MoveAssignFree(d, s) ==
  /\ d = s \/ (GuardsOn(d) = 0 /\ GuardsOn(s) = 0)
  /\ MoveAssign(d, s)

\* A program that never overlaps guards and never relocates a guarded buffer.
NextContract ==
  \/ \E h \in Handles, n \in 0..MaxSize, mallocOk \in BOOLEAN, protOk \in BOOLEAN :
       \E content \in ByteSeqs(n) : Construct(h, n, mallocOk, protOk, content)
  \/ \E h \in Handles : Destroy(h)
  \/ \E d \in Handles, s \in Handles : MoveConstructFree(d, s)
  \/ \E d \in Handles, s \in Handles : MoveAssignFree(d, s)
  \/ \E h \in Handles, rwOk \in BOOLEAN, naOk \in BOOLEAN : Zeroize(h, rwOk, naOk)
  \/ \E h \in Handles, kind \in {"read", "write"}, protOk \in BOOLEAN :
       OpenFree(h, kind, protOk)
  \/ \E i \in 1..MaxGuards, how \in {"return", "throw"}, protOk \in BOOLEAN :
       Close(i, how, protOk)
  \/ \E i \in 1..MaxGuards, n \in 1..MaxSize : \E s \in ByteSeqs(n) : Write(i, s)

SpecContract == Init /\ [][NextContract]_vars

\* ------------------------------------------- callers of the scoped helpers
\* with_read_access / with_write_access: the guard is a local of the helper,
\* built before the callback f is entered.
ScopedOpen(h, kind, protOk) == Open(h, kind, protOk)

\* The callback entered last returns or throws; the helper's guard goes out of
\* scope. Guards of enclosing helper calls outlive it.
ScopedClose(how, protOk) ==
  /\ Len(guards) > 0
  /\ Close(Len(guards), how, protOk)

\* A program that opens windows through the scoped helpers only. A callback may
\* do anything else with the Secrets it can reach, another helper call included.
NextScoped ==
  \/ \E h \in Handles, n \in 0..MaxSize, mallocOk \in BOOLEAN, protOk \in BOOLEAN :
       \E content \in ByteSeqs(n) : Construct(h, n, mallocOk, protOk, content)
  \/ \E h \in Handles : Destroy(h)
  \/ \E d \in Handles, s \in Handles : MoveConstruct(d, s)
  \/ \E d \in Handles, s \in Handles : MoveAssign(d, s)
  \/ \E h \in Handles, rwOk \in BOOLEAN, naOk \in BOOLEAN : Zeroize(h, rwOk, naOk)
  \/ \E h \in Handles, kind \in {"read", "write"}, protOk \in BOOLEAN :
       ScopedOpen(h, kind, protOk)
  \/ \E how \in {"return", "throw"}, protOk \in BOOLEAN : ScopedClose(how, protOk)
  \/ \E i \in 1..MaxGuards, n \in 1..MaxSize : \E s \in ByteSeqs(n) : Write(i, s)

SpecScoped == Init /\ [][NextScoped]_vars

\* ------------------------------------------- the terminal and readPassword
secretVars == <<debug, aborted, hstate, data_, size_, access_count_, heap,
                guards, lastWrite, stepVars>>

\* Values std::cin.get() hands to readPassword, cast to char: newline,
\* carriage return, backspace, DEL, BEL, end of input, 'a' and 'b'.
Keys == {10, 13, 8, 127, 7, -1, 97, 98}

\* newSettings: the attributes just read, with ECHO | ICANON cleared,
\* VMIN = 1 and VTIME = 0.
RawOf(t) == [t EXCEPT !.echo = FALSE, !.icanon = FALSE, !.vmin = 1, !.vtime = 0]

\* Faulty variant: the flag is raised before tcsetattr is called.
configureTerminal_FlagFirst(m, t, getOk, setOk) ==
  IF ~getOk
  THEN [tm |-> m, tty |-> t, threw |-> TRUE, fail |-> "tcgetattr"]
  ELSE [tm |-> [m EXCEPT !.originalSettings_ = t, !.settingsChanged_ = TRUE],
        tty |-> IF setOk THEN RawOf(t) ELSE t, threw |-> ~setOk,
        fail |-> IF setOk THEN "-" ELSE "tcsetattr"]

\* UnixTerminalManager::configureTerminal() on manager m with the terminal's
\* attributes t: tcgetattr into originalSettings_, tcsetattr(TCSANOW) of the
\* raw copy, settingsChanged_ = true; either call failing throws.
configureTerminal(m, t, getOk, setOk) ==
  IF ~getOk
  THEN [tm |-> m, tty |-> t, threw |-> TRUE, fail |-> "tcgetattr"]
  ELSE IF ~setOk
  THEN [tm |-> [m EXCEPT !.originalSettings_ = t], tty |-> t, threw |-> TRUE,
        fail |-> "tcsetattr"]
  ELSE [tm |-> [m EXCEPT !.originalSettings_ = t, !.settingsChanged_ = TRUE],
        tty |-> RawOf(t), threw |-> FALSE, fail |-> "-"]

\* Faulty variant: the flag is lowered only when the terminal took the
\* saved attributes.
restore_KeepFlagOnFailure(m, t, setOk) ==
  IF m.settingsChanged_
  THEN [tm |-> [m EXCEPT !.settingsChanged_ = ~setOk],
        tty |-> IF setOk THEN m.originalSettings_ ELSE t,
        fail |-> IF setOk THEN "-" ELSE "tcsetattr", call |-> "tcsetattr"]
  ELSE [tm |-> m, tty |-> t, fail |-> "-", call |-> "-"]

\* UnixTerminalManager::restore(): if settingsChanged_, tcsetattr(TCSAFLUSH)
\* of originalSettings_ (a failure is logged) and settingsChanged_ = false.
restore(m, t, setOk) ==
  IF m.settingsChanged_
  THEN [tm |-> [m EXCEPT !.settingsChanged_ = FALSE],
        tty |-> IF setOk THEN m.originalSettings_ ELSE t,
        fail |-> IF setOk THEN "-" ELSE "tcsetattr", call |-> "tcsetattr"]
  ELSE [tm |-> m, tty |-> t, fail |-> "-", call |-> "-"]

\* UnixTerminalManager::isConfigured()
isConfigured(m) == m.settingsChanged_

\* UnixTerminalManager tm; the constructor calls configureTerminal(). An
\* exception leaves the members as they are in storage that never becomes an
\* object ("failed"): no member function and no destructor runs on it.
TmConstruct(getOk, setOk) ==
  /\ tm.st \in {"none", "failed"} /\ rp = "idle"
  /\ LET r == configureTerminal(NoManager, tty, getOk, setOk)
     IN /\ tm' = [r.tm EXCEPT !.st = IF r.threw THEN "failed" ELSE "live"]
        /\ tty' = r.tty
        /\ setFailed' = (setFailed \/ r.fail = "tcsetattr")
        /\ last' = [NoOp EXCEPT !.op = "TmConstruct", !.fail = r.fail,
                                !.stop = IF r.threw THEN "throw" ELSE "-"]
  /\ before' = tty
  /\ UNCHANGED <<secretVars, password, rp>>

\* tm.configureTerminal() called by the owner of a constructed manager.
TmConfigure(getOk, setOk) ==
  /\ tm.st = "live" /\ rp = "idle"
  /\ LET r == configureTerminal(tm, tty, getOk, setOk)
     IN /\ tm' = r.tm
        /\ tty' = r.tty
        /\ setFailed' = (setFailed \/ r.fail = "tcsetattr")
        /\ last' = [NoOp EXCEPT !.op = "TmConfigure", !.fail = r.fail,
                                !.stop = IF r.threw THEN "throw" ELSE "-"]
  /\ UNCHANGED <<secretVars, before, password, rp>>

\* tm.restore() called by the owner of a constructed manager.
TmRestore(setOk) ==
  /\ tm.st = "live" /\ rp = "idle"
  /\ LET r == restore(tm, tty, setOk)
     IN /\ tm' = r.tm
        /\ tty' = r.tty
        /\ setFailed' = (setFailed \/ r.fail = "tcsetattr")
        /\ last' = [NoOp EXCEPT !.op = "TmRestore", !.fail = r.fail,
                                !.how = r.call]
  /\ UNCHANGED <<secretVars, before, password, rp>>

\* ~UnixTerminalManager() noexcept { restore(); }, on a return or an exception
\* leaving the scope.
TmDestroy(setOk) ==
  /\ tm.st = "live" /\ rp = "idle"
  /\ LET r == restore(tm, tty, setOk)
     IN /\ tm' = [r.tm EXCEPT !.st = "gone"]
        /\ tty' = r.tty
        /\ setFailed' = (setFailed \/ r.fail = "tcsetattr")
        /\ last' = [NoOp EXCEPT !.op = "TmDestroy", !.fail = r.fail,
                                !.how = r.call]
  /\ UNCHANGED <<secretVars, before, password, rp>>

\* readPassword() up to its loop: the prompt, pwledger::TerminalManager tm
\* (an exception leaves the function), pwledger::secure_string password.
RpBegin(getOk, setOk) ==
  /\ tm.st \in {"none", "failed"} /\ rp = "idle"
  /\ LET r == configureTerminal(NoManager, tty, getOk, setOk)
     IN /\ tm' = [r.tm EXCEPT !.st = IF r.threw THEN "failed" ELSE "live"]
        /\ tty' = r.tty
        /\ setFailed' = (setFailed \/ r.fail = "tcsetattr")
        /\ rp' = IF r.threw THEN "idle" ELSE "reading"
        /\ last' = [NoOp EXCEPT !.op = "RpBegin", !.fail = r.fail,
                                !.stop = IF r.threw THEN "throw" ELSE "-"]
  /\ before' = tty
  /\ password' = <<>>
  /\ UNCHANGED secretVars

\* One turn of the loop of readPassword() on the character ch: '\n' or '\r'
\* ends the loop and the function returns the string (tm is destroyed);
\* '\b' or 127 drops the last character if there is one; a character in
\* 32..126 is appended to the std::string; anything else is skipped.
RpChar(ch, setOk) ==
  /\ rp = "reading"
  /\ IF ch = 10 \/ ch = 13
     THEN LET r == restore(tm, tty, setOk)
          IN /\ tm' = [r.tm EXCEPT !.st = "gone"]
             /\ tty' = r.tty
             /\ setFailed' = (setFailed \/ r.fail = "tcsetattr")
             /\ rp' = "returned"
             /\ UNCHANGED password
     ELSE /\ password' =
               IF ch = 8 \/ ch = 127
               THEN IF password # <<>> THEN SubSeq(password, 1, Len(password) - 1)
                    ELSE password
               ELSE IF ch >= 32 /\ ch <= 126 THEN Append(password, ch)
               ELSE password
          /\ UNCHANGED <<tm, tty, setFailed, rp>>
  /\ Len(password') <= MaxInput
  /\ last' = [NoOp EXCEPT !.op = "RpChar", !.n = ch, !.bytes = password]
  /\ UNCHANGED <<secretVars, before>>

InitTerminal == InitSecrets /\ InitIO /\ tty \in TtyAttrs

NextTerminal ==
  \/ \E getOk \in BOOLEAN, setOk \in BOOLEAN : TmConstruct(getOk, setOk)
  \/ \E getOk \in BOOLEAN, setOk \in BOOLEAN : TmConfigure(getOk, setOk)
  \/ \E setOk \in BOOLEAN : TmRestore(setOk)
  \/ \E setOk \in BOOLEAN : TmDestroy(setOk)
  \/ \E getOk \in BOOLEAN, setOk \in BOOLEAN : RpBegin(getOk, setOk)
  \/ \E ch \in Keys, setOk \in BOOLEAN : RpChar(ch, setOk)

SpecTerminal == InitTerminal /\ [][NextTerminal]_vars

\* ------------------------------------------------------------- properties
\* The last operation returned to its caller (the process was not terminated).
Returned == ~aborted

Owners(a) == {h \in Handles : data_[h] = a}

IsMove == last.op \in {"MoveConstruct", "MoveAssign"} /\ last.h # last.src

StartsWith(view, s) == /\ Len(view) >= Len(s)
                       /\ \A i \in 1..Len(s) : view[i] = s[i]

\* C1: after any sequence of Construct, Relocate and Destroy every region is
\* referenced by at most one handle, and right after a Relocate (a transfer
\* between two different handles, by move construction or move assignment)
\* the source reports size 0 and owns nothing.
C1_NoDuplication ==
  /\ \A a \in Allocs : Cardinality(Owners(a)) <= 1
  /\ (IsMove /\ Returned) => (Size(last.src) = 0 /\ data_[last.src] = NULL)

C1_Witness ==
  /\ IsMove /\ Returned
  /\ last.alloc # NULL
  /\ Owners(last.alloc) = {last.h}
  /\ Size(last.src) = 0

C3_AtMostOneGuard == \A h \in Handles : GuardsOn(h) <= 1

\* C3 as amended: in an instrumented build no state has two live guards on the
\* same buffer (the second Open terminates the process instead).
C3_AtMostOneGuardInstrumented == debug => \A h \in Handles : GuardsOn(h) <= 1

C3_Witness ==
  /\ debug /\ aborted
  /\ last.op = "Open" /\ last.cnt = 1
  /\ GuardsOn(last.h) = 1

\* C4: in an instrumented build, an Open of either variant on a buffer that
\* already has a live guard, or whose region is not in NoAccess, terminates
\* the process and yields no second guard.
C4_OverlapRejected ==
  (debug /\ last.op = "Open" /\ (last.cnt > 0 \/ last.prot # "NoAccess"))
    => (aborted /\ GuardsOn(last.h) = last.cnt)

C4_Witness ==
  /\ debug /\ last.op = "Open" /\ last.kind = "write"
  /\ last.cnt > 0 /\ last.prot = "ReadOnly"
  /\ aborted

\* C5: every region that has been released is all zero; the destructor of a
\* handle that owns a region releases it wiped, whatever its protection level
\* and guards; move assignment over a destination that owns a region releases
\* that region wiped.
C5_WipeBeforeRelease ==
  /\ \A a \in Allocs : heap[a].st = "freed" => IsZero(heap[a].bytes)
  /\ (last.op = "Destroy" /\ last.alloc # NULL)
       => (heap[last.alloc].st = "freed" /\ IsZero(heap[last.alloc].bytes))
  /\ (last.op = "MoveAssign" /\ IsMove /\ Returned /\ last.old # NULL)
       => (heap[last.old].st = "freed" /\ IsZero(heap[last.old].bytes))

C5_Witness ==
  /\ last.op = "Destroy" /\ last.alloc # NULL
  /\ last.dirty
  /\ GuardsOn(last.h) > 0
  /\ heap[last.alloc].st = "freed"

\* C6 as stated: every Open that returns found the region in NoAccess and
\* every Close that returns leaves it in NoAccess.
C6_OpenCloseNoAccess ==
  /\ (last.op = "Open" /\ Returned) => last.prot = "NoAccess"
  /\ (last.op = "Close" /\ Returned) => ProtOf(last.h) = "NoAccess"

\* C6 as amended: in an instrumented build every Open that returns found the
\* region in NoAccess; in every build every Close that returns leaves the
\* region in NoAccess.
C6_OpenCloseNoAccessInstrumented ==
  /\ (debug /\ last.op = "Open" /\ Returned) => last.prot = "NoAccess"
  /\ (last.op = "Close" /\ Returned) => ProtOf(last.h) = "NoAccess"

C6_Witness ==
  /\ debug /\ Returned
  /\ last.op = "Close" /\ last.kind = "write"
  /\ ProtOf(last.h) = "NoAccess"

\* C7: when a guard leaves its scope, by return or by an exception, and the
\* process goes on, the buffer the guard refers to is in NoAccess, the guard
\* is gone and its slot in the guard count is released.
C7_ScopeExitRelocks ==
  (last.op = "Close" /\ Returned) =>
    /\ ProtOf(last.h) = "NoAccess"
    /\ GuardsOn(last.h) = last.cnt - 1
    /\ debug => access_count_[last.h] = 0

C7_Witness ==
  /\ last.op = "Close" /\ last.how = "throw" /\ Returned
  /\ ProtOf(last.h) = "NoAccess"
  /\ GuardsOn(last.h) = 0

\* C8: right after Construct(n) with n > 0 returns, the region is in NoAccess,
\* Size() is n and no guard is live on the buffer.
C8_ConstructLocked ==
  (last.op = "Construct" /\ Returned /\ last.n > 0) =>
    /\ hstate[last.h] = "live"
    /\ data_[last.h] # NULL
    /\ ProtOf(last.h) = "NoAccess"
    /\ Size(last.h) = last.n
    /\ Len(BytesOf(last.h)) = last.n
    /\ GuardsOn(last.h) = 0
    /\ access_count_[last.h] = 0

C8_Witness ==
  /\ last.op = "Construct" /\ Returned
  /\ last.n = MaxSize
  /\ Size(last.h) = MaxSize

\* C9: once s (0 < |s| <= n) has been stored through a write guard, every read
\* guard opened later on the buffer, with no other store or zero-fill in
\* between, has a view of n bytes that starts with s.
C9_RoundTrip ==
  (/\ last.op = "Open" /\ last.kind = "read" /\ Returned
   /\ lastWrite.alloc # NULL /\ data_[last.h] = lastWrite.alloc) =>
    /\ ProtOf(last.h) = "ReadOnly"
    /\ Len(View(last.h)) = Len(BytesOf(last.h))
    /\ StartsWith(View(last.h), lastWrite.s)

C9_Witness ==
  /\ last.op = "Open" /\ last.kind = "read" /\ Returned
  /\ lastWrite.alloc # NULL /\ data_[last.h] = lastWrite.alloc
  /\ GuardsOn(last.h) = 1
  /\ Len(lastWrite.s) < Size(last.h)
  /\ lastWrite.s[1] # 0
  /\ StartsWith(View(last.h), lastWrite.s)

\* C10: move construction from an unguarded buffer gives the destination the
\* source's size and bytes, and leaves it ready for a guard (no overlap is
\* detected by the next Open).
C10_RelocatePreserves ==
  (last.op = "MoveConstruct" /\ Returned /\ last.cnt = 0) =>
    /\ Size(last.h) = last.n
    /\ data_[last.h] = last.alloc
    /\ View(last.h) = last.bytes
    /\ GuardsOn(last.h) = 0
    /\ ~OverlapDetected(access_count_[last.h])

C10_Witness ==
  /\ last.op = "MoveConstruct" /\ Returned /\ last.cnt = 0
  /\ last.n = MaxSize
  /\ ~IsZero(last.bytes)
  /\ View(last.h) = last.bytes

\* C11: no region is ever released twice, a region that is still allocated has
\* exactly one owner, a released region has none, and once every handle that
\* was created has been destroyed no region is left allocated; destroying a
\* moved-from (empty) handle releases nothing.
C11_ReleasedExactlyOnce ==
  /\ \A a \in Allocs :
       /\ heap[a].frees <= 1
       /\ heap[a].st = "live" => Cardinality(Owners(a)) = 1
       /\ heap[a].st = "freed" => (Owners(a) = {} /\ heap[a].frees = 1)
       /\ heap[a].st = "unused" => (Owners(a) = {} /\ heap[a].frees = 0)
  /\ \A h \in Handles : hstate[h] = "dead" => data_[h] = NULL
  /\ (~aborted /\ \A h \in Handles : hstate[h] # "live")
       => \A a \in Allocs : heap[a].st # "live"

C11_Witness ==
  /\ ~aborted
  /\ \A h \in Handles : hstate[h] = "dead"
  /\ last.op = "Destroy" /\ last.alloc = NULL
  /\ \E a \in Allocs : heap[a].st = "freed" /\ heap[a].frees = 1
  /\ \A a \in Allocs : heap[a].st # "live"
\* C12 as stated: no mprotect call takes a region from ReadOnly to ReadWrite
\* or from ReadWrite to ReadOnly: not the one of an Open that returns, and not
\* the sodium_mprotect_readwrite of a zeroize that returns.
C12_OnlyViaNoAccess ==
  /\ (last.op = "Open" /\ Returned) =>
       /\ ~(last.prot = "ReadOnly" /\ ProtOf(last.h) = "ReadWrite")
       /\ ~(last.prot = "ReadWrite" /\ ProtOf(last.h) = "ReadOnly")
  /\ (last.op = "Zeroize" /\ Returned /\ last.alloc # NULL) => last.prot # "ReadOnly"

\* C12 as amended: in an instrumented build every Open that returns took the
\* region from NoAccess to ReadOnly (read guard) or ReadWrite (write guard),
\* and a zeroize of a buffer with no live guard finds the region in NoAccess.
C12_OnlyViaNoAccessInstrumented ==
  debug =>
    /\ (last.op = "Open" /\ Returned) =>
         /\ last.prot = "NoAccess"
         /\ last.kind = "read" => ProtOf(last.h) = "ReadOnly"
         /\ last.kind = "write" => ProtOf(last.h) = "ReadWrite"
    /\ (last.op = "Zeroize" /\ last.alloc # NULL /\ GuardsOn(last.h) = 0)
         => last.prot = "NoAccess"

C12_Witness ==
  /\ debug /\ Returned
  /\ last.op = "Open" /\ last.kind = "read"
  /\ last.prot = "NoAccess" /\ ProtOf(last.h) = "ReadOnly"
C14_ConstructFailFast ==
  /\ (last.op = "Construct" /\ last.fail # "-")
       => (aborted /\ hstate[last.h] # "live")
  /\ (last.op = "Construct" /\ Returned)
       => (hstate[last.h] = "live" /\ data_[last.h] # NULL
           /\ heap[data_[last.h]].st = "live")

C14_Witness ==
  /\ last.op = "Construct" /\ last.fail = "mprotect"
  /\ aborted
  /\ hstate[last.h] = "unborn"
  /\ ProtOf(last.h) = "ReadWrite"

\* C15: an Open whose protection change failed has terminated the process
\* without creating a guard (no view exists); a Close whose re-lock failed has
\* terminated the process, so no Close returns with the region still open.
C15_GuardFailFast ==
  /\ (last.op = "Open" /\ last.fail = "mprotect")
       => (aborted /\ GuardsOn(last.h) = last.cnt /\ ProtOf(last.h) = last.prot)
  /\ (last.op = "Close" /\ last.fail = "mprotect")
       => (aborted /\ GuardsOn(last.h) = last.cnt)
  /\ (last.op = "Close" /\ Returned)
       => (last.fail = "-" /\ ProtOf(last.h) \notin {"ReadOnly", "ReadWrite"})

C15_Witness ==
  /\ last.op = "Close" /\ last.fail = "mprotect"
  /\ aborted
  /\ ProtOf(last.h) \in {"ReadOnly", "ReadWrite"}

\* C16: whenever sodium_malloc or a sodium_mprotect_* call reported failure
\* inside Construct, Open, Close or zeroize, the process has been terminated:
\* no operation returns after such a failure.
C16_NoSoftFailure ==
  /\ last.fail # "-" => aborted
  /\ Returned => last.fail = "-"
  /\ last.fail # "-" => last.op \in {"Construct", "Open", "Close", "Zeroize"}

C16_Witness ==
  /\ last.op = "Zeroize" /\ last.fail = "mprotect"
  /\ aborted
  /\ ProtOf(last.h) = "ReadWrite"
  /\ IsZero(BytesOf(last.h)) /\ last.dirty
\* C17 as stated: no region handed out by sodium_malloc has length 0, and no
\* handle owns such a region.
C17_NoEmptyAllocation ==
  /\ \A a \in Allocs : heap[a].st # "unused" => Len(heap[a].bytes) > 0
  /\ \A h \in Handles : data_[h] # NULL => size_[h] > 0

\* C17 as amended: in an instrumented build Construct(0) terminates the
\* process before sodium_malloc is called, so no region of length 0 exists and
\* no handle owns one.
C17_NoEmptyAllocationInstrumented ==
  debug =>
    /\ \A a \in Allocs : heap[a].st # "unused" => Len(heap[a].bytes) > 0
    /\ \A h \in Handles : data_[h] # NULL => size_[h] > 0
    /\ (last.op = "Construct" /\ last.n = 0)
         => (aborted /\ last.fail = "-" /\ data_[last.h] = NULL
             /\ hstate[last.h] = "unborn")

C17_Witness ==
  /\ debug /\ aborted
  /\ last.op = "Construct" /\ last.n = 0
  /\ data_[last.h] = NULL
  /\ \E a \in Allocs : heap[a].st = "unused"
\* C18: in an instrumented build a move construction from a buffer with a live
\* guard, and a move assignment between two different buffers of which the
\* destination or the source has a live guard, terminates the process; a move
\* with no guard involved returns.
C18_MoveUnderGuardDetected ==
  debug =>
    /\ (IsMove /\ last.cnt > 0) => aborted
    /\ (IsMove /\ last.cnt = 0) => Returned

C18_Witness ==
  /\ debug /\ aborted
  /\ last.op = "MoveAssign" /\ last.h # last.src
  /\ GuardsOn(last.h) > 0 /\ GuardsOn(last.src) = 0
  /\ data_[last.src] # NULL
\* C19: after zeroize returns on a buffer that owns a region, every byte of
\* the region is zero, Size() is what it was, the handle still owns the same
\* region, which is still allocated, and the region is in NoAccess.
C19_ZeroizeKeepsBuffer ==
  (last.op = "Zeroize" /\ Returned /\ last.alloc # NULL) =>
    /\ IsZero(BytesOf(last.h))
    /\ Len(View(last.h)) = last.n /\ IsZero(View(last.h))
    /\ Size(last.h) = last.n
    /\ Len(BytesOf(last.h)) = last.n
    /\ data_[last.h] = last.alloc
    /\ heap[last.alloc].st = "live"
    /\ ProtOf(last.h) = "NoAccess"

C19_Witness ==
  /\ last.op = "Zeroize" /\ Returned /\ last.alloc # NULL
  /\ last.dirty /\ last.n = MaxSize
  /\ IsZero(BytesOf(last.h))
  /\ ProtOf(last.h) = "NoAccess"
\* C20: size() returns in every protection state, with or without a guard,
\* and leaves the protection state and the guards as they were; it returns the
\* length of the region the handle owns (0 for a handle that owns none), and
\* Open, Close, zeroize and stores through a view leave it unchanged.
C20_SizeIsFrameSafe ==
  /\ last.op = "Size" =>
       /\ Returned
       /\ ProtOf(last.h) = last.prot
       /\ GuardsOn(last.h) = last.cnt
       /\ last.n = Len(BytesOf(last.h))
  /\ \A h \in Handles :
       hstate[h] = "live" => Size(h) = Len(BytesOf(h))
  /\ (last.op \in {"Open", "Close", "Zeroize", "Write", "Size"})
       => Size(last.h) = last.n

C20_Witness ==
  /\ last.op = "Size" /\ Returned
  /\ last.prot = "NoAccess" /\ last.cnt = 0
  /\ last.n = MaxSize
  /\ ProtOf(last.h) = "NoAccess" /\ GuardsOn(last.h) = 0
\* C21: opening a read guard and closing it leave the bytes, the size and the
\* owner of the region as they were; while the read guard is the only guard
\* its view spans exactly Size() bytes of a region that is ReadOnly.
C21_ReadWindowChangesNothing ==
  (last.op \in {"Open", "Close"} /\ last.kind = "read" /\ Returned) =>
    /\ BytesOf(last.h) = last.bytes
    /\ Size(last.h) = last.n
    /\ data_[last.h] = last.alloc
    /\ Owners(last.alloc) = {last.h}
    /\ Len(View(last.h)) = Size(last.h)
    /\ (last.op = "Open" /\ last.cnt = 0) => ProtOf(last.h) = "ReadOnly"

C21_Witness ==
  /\ last.op = "Close" /\ last.kind = "read" /\ Returned
  /\ last.n = MaxSize /\ ~IsZero(last.bytes)
  /\ View(last.h) = last.bytes
  /\ GuardsOn(last.h) = 0
\* C22 as stated: in a program that never overlaps guards and never relocates
\* a guarded buffer no check that exists in the instrumented build only ever
\* fires (so both builds go the same way), and the process is terminated only
\* when a primitive failed.
C22_BuildsAgree ==
  /\ last.stop # "assert"
  /\ aborted => last.fail \in {"malloc", "mprotect"}

\* C22 as amended: in such a program the only instrumented-only check that
\* fires is the size check of Construct(0); the guard counter of a running
\* instrumented build equals the number of live guards, so its overlap and
\* relocation checks never fire; and apart from Construct(0) the process is
\* terminated only when a primitive failed or on a fault that both builds
\* share (a guard opened on, or closed over, a handle that owns nothing; a
\* store through a view whose region has been re-locked).
C22_BuildsAgreeButForSizeZero ==
  /\ last.stop = "assert" => (debug /\ last.op = "Construct" /\ last.n = 0)
  /\ (debug /\ ~aborted) =>
       \A h \in Handles : hstate[h] = "live" => access_count_[h] = GuardsOn(h)
  /\ ~debug => \A h \in Handles : access_count_[h] = 0
  /\ (aborted /\ last.fail = "-") =>
       \/ last.stop = "assert"
       \/ /\ last.stop = "fault"
          /\ \/ last.op \in {"Open", "Close"} /\ last.alloc = NULL
             \/ last.op = "Write" /\ ProtOf(last.h) # "ReadWrite"

C22_Witness ==
  /\ debug /\ Returned
  /\ last.op = "Open" /\ last.kind = "read"
  /\ lastWrite.alloc # NULL /\ data_[last.h] = lastWrite.alloc
  /\ access_count_[last.h] = 1 /\ GuardsOn(last.h) = 1
\* C23: in an instrumented build, of two threads that are inside guards on
\* the same buffer at the same time only one has read 0 from the fetch_add;
\* a guard that read non-zero does not get past the assertion, so two guards
\* never both pass it, and the process is stopped by that assertion only.
PassedCheck(t) == thread[t].pc \in {"checked", "open", "locked"}

C23_ConcurrentOpenIsCaught ==
  debug =>
    /\ \A t, u \in Threads :
         (t # u /\ thread[t].pc # "idle" /\ thread[u].pc # "idle"
            /\ thread[t].sec = thread[u].sec) =>
           /\ thread[t].prev # 0 \/ thread[u].prev # 0
           /\ ~(PassedCheck(t) /\ PassedCheck(u))
    /\ \A t \in Threads : PassedCheck(t) => thread[t].prev = 0
    /\ \A t \in Threads :
         (thread[t].pc = "added" /\ thread[t].prev # 0 /\ ~aborted) =>
           /\ ENABLED GuardAssert(t)
           /\ ~ENABLED (GuardAssert(t) /\ ~aborted')
    /\ last.op = "GuardAssert" => (aborted <=> last.stop = "assert")

C23_Witness ==
  /\ debug /\ aborted /\ last.op = "GuardAssert" /\ last.stop = "assert"
  /\ \E t, u \in Threads :
       /\ t # u /\ thread[t].sec = last.h /\ thread[u].sec = last.h
       /\ thread[t].pc = "open" /\ thread[t].prev = 0
       /\ thread[u].pc = "added" /\ thread[u].prev = 1

\* C24: the statements of a guard never wait. A thread outside a guard can
\* enter one on any constructed buffer whatever the count is and whoever else
\* is inside, a thread inside a guard constructor or destructor can always
\* take its next statement, and with every thread running a guard
\* constructor ends with the guard open or the process stopped and a guard
\* destructor ends with the guard gone or the process stopped.
C24_EnterNeverWaits ==
  ~aborted =>
    /\ \A t \in Threads, h \in Handles :
         (thread[t].pc = "idle" /\ hstate[h] = "live") =>
           \A kind \in {"read", "write"} : ENABLED GuardEnter(t, h, kind)
    /\ \A t \in Threads :
         /\ thread[t].pc = "added" => ENABLED GuardAssert(t)
         /\ thread[t].pc = "checked" =>
              \A protOk \in BOOLEAN : ENABLED GuardProtect(t, protOk)
         /\ thread[t].pc = "open" =>
              \A protOk \in BOOLEAN : ENABLED GuardRelock(t, protOk)
         /\ thread[t].pc = "locked" => ENABLED GuardLeave(t)

C24_NoOperationWaits ==
  /\ []C24_EnterNeverWaits
  /\ \A t \in Threads :
       /\ (thread[t].pc = "added") ~> (thread[t].pc = "open" \/ aborted)
       /\ (thread[t].pc = "locked") ~> (thread[t].pc = "idle" \/ aborted)

C24_Witness ==
  /\ ~aborted /\ last.op = "GuardAssert"
  /\ \E t, u \in Threads :
       /\ t # u /\ thread[t].sec = last.h /\ thread[u].sec = last.h
       /\ thread[t].pc = "open"
       /\ thread[u].pc = "checked"
       /\ access_count_[last.h] = 0

\* C25: while readPassword captures a password, and after it has returned,
\* no character it has captured is held in a std::string.
C25_NoCapturedByteOutsideSecret ==
  rp \in {"reading", "returned"} => Len(password) = 0

\* C26: once a terminal manager has been constructed, used and destroyed
\* with every tcsetattr succeeding, the terminal has the attributes it had
\* before the constructor ran.
C26_DestroyedManagerRestoredOriginal ==
  (tm.st = "gone" /\ ~setFailed) => tty = before

\* C27: in a non-instrumented build, a write guard opened on a buffer whose
\* only guard is a read guard returns and makes the region ReadWrite; closing
\* the write guard puts the region in NoAccess while the read guard is still
\* live; closing the last guard leaves the region in NoAccess.
C27_NestedInRelease ==
  ~debug =>
    /\ (/\ last.op = "Open" /\ last.kind = "write" /\ last.fail = "-"
        /\ last.cnt = 1 /\ last.prot = "ReadOnly")
         => (Returned /\ ProtOf(last.h) = "ReadWrite" /\ GuardsOn(last.h) = 2)
    /\ (last.op = "Close" /\ last.kind = "write" /\ last.cnt = 2 /\ Returned)
         => (ProtOf(last.h) = "NoAccess" /\ GuardsOn(last.h) = 1)
    /\ (last.op = "Close" /\ last.cnt = 1 /\ Returned)
         => (ProtOf(last.h) = "NoAccess" /\ GuardsOn(last.h) = 0)

C27_Witness ==
  /\ ~debug /\ Returned
  /\ last.op = "Close" /\ last.kind = "write" /\ last.cnt = 2
  /\ Len(guards) = 1 /\ guards[1].sec = last.h /\ guards[1].kind = "read"
  /\ ProtOf(last.h) = "NoAccess"
C29_SelfAssignIsNoOp ==
  (last.op = "MoveAssign" /\ last.h = last.src) =>
    /\ Returned
    /\ hstate[last.h] = "live"
    /\ data_[last.h] = last.alloc
    /\ Size(last.h) = last.n
    /\ View(last.h) = last.bytes
    /\ ProtOf(last.h) = last.prot
    /\ 2 * GuardsOn(last.h) = last.cnt
    /\ debug => access_count_[last.h] = GuardsOn(last.h)
    /\ last.alloc # NULL =>
         /\ heap[last.alloc].st = "live" /\ heap[last.alloc].frees = 0
         /\ IsZero(heap[last.alloc].bytes) = ~last.dirty

C29_Witness ==
  /\ last.op = "MoveAssign" /\ last.h = last.src
  /\ debug /\ Returned
  /\ last.alloc # NULL /\ last.dirty /\ ~IsZero(View(last.h))
  /\ GuardsOn(last.h) = 1 /\ ProtOf(last.h) = "ReadWrite"

\* C30: in an instrumented build, at every statement boundary of a guard
\* constructor or destructor a buffer whose region is readable or writable
\* has a count above 0: the count is raised before the region is opened and
\* lowered after it is locked again.
C30_NeverOpenWithCountZero ==
  debug =>
    /\ \A h \in Handles :
         (hstate[h] = "live" /\ data_[h] # NULL
            /\ ProtOf(h) \in {"ReadOnly", "ReadWrite"}) => access_count_[h] > 0
    /\ last.op = "GuardProtect" => access_count_[last.h] > 0 \/ aborted
    /\ last.op = "GuardLeave" => ProtOf(last.h) = "NoAccess"

C30_Witness ==
  /\ debug /\ ~aborted
  /\ \E t \in Threads :
       /\ thread[t].pc = "locked"
       /\ ProtOf(thread[t].sec) = "NoAccess"
       /\ access_count_[thread[t].sec] = 1
       /\ Entered(thread[t].sec) = {t}

\* C31: zeroize() called on a buffer on which a guard is counted in (at any
\* statement of the guard, in either build) is not stopped by a check: with
\* both protection changes succeeding it returns, the region is wiped and in
\* NoAccess, and the count and the guards are what they were before the
\* call.
C31_AfterZeroize ==
  (last.op = "Zeroize" /\ last.alloc # NULL /\ last.fail = "-") =>
    /\ Returned
    /\ ProtOf(last.h) = "NoAccess"
    /\ IsZero(BytesOf(last.h))

C31_ZeroizeStep ==
  last'.op = "Zeroize" =>
    /\ access_count_' = access_count_
    /\ thread' = thread
    /\ (last'.fail = "-" /\ ~aborted) => ~aborted'

C31_ZeroizeIgnoresGuards == []C31_AfterZeroize /\ [][C31_ZeroizeStep]_vars

C31_Witness ==
  /\ debug /\ Returned /\ last.op = "Zeroize" /\ last.fail = "-"
  /\ last.prot = "ReadWrite" /\ ProtOf(last.h) = "NoAccess"
  /\ access_count_[last.h] = 1
  /\ \E t \in Threads : thread[t].pc = "open" /\ thread[t].sec = last.h

\* C32: zeroize() and the destructor on a Secret that owns nothing (moved
\* from, or destroyed before) return and change neither the regions nor the
\* Secret, whatever the primitives would have answered; a destructor that
\* finds a region releases it, and no region is released more than once,
\* also when the destructor of a Secret runs twice.
C32_OnEmptyStep ==
  /\ (last'.op \in {"Zeroize", "Destroy"} /\ last'.alloc = NULL) =>
       /\ heap' = heap
       /\ data_' = data_ /\ size_' = size_
       /\ access_count_' = access_count_ /\ guards' = guards
       /\ aborted' = aborted
       /\ last'.fail = "-"
  /\ (last'.op = "Destroy" /\ last'.alloc # NULL /\ last # last') =>
       /\ heap[last'.alloc].st = "live"
       /\ heap'[last'.alloc].st = "freed"
       /\ heap'[last'.alloc].frees = 1
       /\ data_'[last'.h] = NULL /\ size_'[last'.h] = 0

C32_ReleasedOnce ==
  /\ \A a \in Allocs : heap[a].frees <= 1
  /\ \A h \in Handles : hstate[h] = "dead" => (data_[h] = NULL /\ size_[h] = 0)
  /\ (last.op \in {"Zeroize", "Destroy"} /\ last.alloc = NULL) => Returned

C32_EmptyIsNoOp == []C32_ReleasedOnce /\ [][C32_OnEmptyStep]_vars

\* A Secret destroyed twice, the second time after its region was released.
C32_Witness ==
  /\ last.op = "Destroy" /\ last.alloc = NULL /\ Returned
  /\ hstate[last.h] = "dead"
  /\ \E a \in Allocs : heap[a].st = "freed" /\ heap[a].frees = 1
  /\ \A h \in Handles : hstate[h] # "live"

\* C33 as stated: in every state a Secret has a region exactly if its size()
\* is above 0.
C33_OwnsIffSized ==
  \A h \in Handles : data_[h] # NULL <=> Size(h) > 0

\* C33 as amended: in an instrumented build a Secret has a region exactly if
\* its size() is above 0; the region it has is allocated, a constructor that
\* returned left size() = the size asked for, and a destroyed or moved-from
\* Secret has size() 0.
C33_OwnsIffSizedInstrumented ==
  debug =>
    /\ \A h \in Handles :
         /\ data_[h] # NULL <=> Size(h) > 0
         /\ data_[h] # NULL =>
              (heap[data_[h]].st = "live" /\ Len(heap[data_[h]].bytes) = Size(h))
         /\ hstate[h] \in {"dead", "unborn"} /\ ~aborted => Size(h) = 0
    /\ (last.op = "Construct" /\ Returned) => (last.n > 0 /\ Size(last.h) = last.n)
    /\ (IsMove /\ Returned) => (Size(last.src) = 0 /\ Size(last.h) = last.n)

C33_Witness ==
  /\ debug /\ Returned /\ last.op = "MoveConstruct"
  /\ hstate[last.src] = "live" /\ data_[last.src] = NULL /\ Size(last.src) = 0
  /\ data_[last.h] # NULL /\ Size(last.h) = MaxSize

\* C34: a constructor of a terminal manager in which tcgetattr or tcsetattr
\* fails throws; the terminal has the attributes it had before, the manager's
\* settingsChanged_ is false, and as long as nothing else is constructed the
\* terminal keeps those attributes. A constructor in which both succeed
\* returns with the terminal raw and the attributes from before saved.
C34_FailedConstructionChangesNothing ==
  /\ last.op \in {"TmConstruct", "RpBegin"} =>
       /\ last.stop = "throw" <=> last.fail \in {"tcgetattr", "tcsetattr"}
       /\ last.stop = "throw" <=> tm.st = "failed"
       /\ last.stop = "-" =>
            /\ tm.st = "live" /\ tm.settingsChanged_
            /\ tm.originalSettings_ = before /\ tty = RawOf(before)
       /\ (last.op = "RpBegin" /\ last.stop = "throw") => rp = "idle"
  /\ tm.st = "failed" =>
       /\ ~tm.settingsChanged_
       /\ tty = before
       /\ last.op \in {"TmConstruct", "RpBegin"}
       /\ restore(tm, tty, TRUE).tty = tty /\ restore(tm, tty, FALSE).fail = "-"

C34_Witness ==
  /\ last.op = "TmConstruct" /\ last.stop = "throw" /\ last.fail = "tcsetattr"
  /\ tm.st = "failed" /\ ~tm.settingsChanged_
  /\ before.echo /\ before.icanon /\ tty = before
  /\ tm.originalSettings_ = before

\* C35: restore(), called by the owner or by the destructor, returns: it
\* neither throws nor stops the process, and isConfigured() is false after
\* it whether tcsetattr succeeded or not. On a configured manager it calls
\* tcsetattr once with the saved attributes; on a manager that is not
\* configured (restored before, with no successful configureTerminal()
\* since) it makes no terminal call and changes nothing.
C35_AfterRestore ==
  last.op \in {"TmRestore", "TmDestroy"} =>
    /\ ~isConfigured(tm)
    /\ last.stop = "-" /\ ~aborted
    /\ last.fail = "tcsetattr" => last.how = "tcsetattr"

C35_RestoreStep ==
  last'.op \in {"TmRestore", "TmDestroy"} =>
    /\ isConfigured(tm) =>
         /\ last'.how = "tcsetattr"
         /\ tty' = IF last'.fail = "-" THEN tm.originalSettings_ ELSE tty
    /\ ~isConfigured(tm) =>
         /\ last'.how = "-" /\ last'.fail = "-"
         /\ tty' = tty
         /\ tm'.originalSettings_ = tm.originalSettings_
         /\ setFailed' = setFailed

C35_RestoreIsBestEffort == []C35_AfterRestore /\ [][C35_RestoreStep]_vars

\* A second restore() after one whose tcsetattr failed: no call, the terminal
\* stays raw.
C35_Witness ==
  /\ last.op = "TmRestore" /\ last.how = "-" /\ tm.st = "live"
  /\ setFailed /\ ~isConfigured(tm)
  /\ before.echo /\ tty = RawOf(before) /\ tm.originalSettings_ = before

====
